---- MODULE Spec2Model ----
(***************************************************************************)
(* Model of the figura template engine of saverioscagnoli/pls:             *)
(* Template::validate_delimiters, Template::tokenize, DefaultParser::parse,*)
(* the built-in directives' execute, Template::parse and Template::format, *)
(* and of the list command that parses config.format and formats a row per *)
(* directory entry.                                                        *)
(* A text is a sequence of characters; a character is a one-letter string. *)
(***************************************************************************)
EXTENDS Integers, Sequences, FiniteSets, TLC

VARIABLES
    O,      \* const generic O of Template<O, C>: the opening delimiter
    C,      \* const generic C of Template<O, C>: the closing delimiter
    P,      \* the Parser strategy type parameter of Template::parse::<P>
    t,      \* the template text handed to Template::parse
    pc,     \* "new" | "parsed" | "formatted": position of the caller
    tpl,    \* the Result<Template, TemplateError> returned by parse
    ctx,    \* the Context handed to the last format call
    out,    \* the Result<String, TemplateError> of the last format call
    calls,  \* per worker: the format call it is in, with the call's locals
    ls,     \* the list command: its configuration, position, table and output
    toks,   \* what Template::tokenize(t) returned, called on its own
    tw      \* a ThreadedWalk: its fields, its worker, its channel and its consumer

vars == <<O, C, P, t, pc, tpl, ctx, out, calls, ls, toks, tw>>

(***************************************************************************)
(* Bounds of the model.                                                    *)
(***************************************************************************)
MaxLen == 6         \* longest template text of the structural specification
MaxContentLen == 4  \* longest bracket content of the formatting specification

(***************************************************************************)
(* Character classes (char::is_alphabetic, is_whitespace, is_ascii_digit,  *)
(* is_alphanumeric) over the characters the model draws from.              *)
(***************************************************************************)
Letters == {"a", "b", "n", "w", "h", "i", "x", "t", "r", "u", "e", "f", "l", "s"}
Digits == {"0", "1", "2", "3", "4", "5", "6", "7", "8", "9"}
Whitespace == {" "}
\* a numeric character that is neither alphabetic nor an ASCII digit (U+00B2)
OtherNumeric == {"sup2"}

is_alphabetic(ch) == ch \in Letters
is_whitespace(ch) == ch \in Whitespace
is_ascii_digit(ch) == ch \in Digits
is_alphanumeric(ch) == ch \in Letters \cup Digits \cup OtherNumeric

DigitVal(ch) ==
    CASE ch = "0" -> 0 [] ch = "1" -> 1 [] ch = "2" -> 2 [] ch = "3" -> 3
      [] ch = "4" -> 4 [] ch = "5" -> 5 [] ch = "6" -> 6 [] ch = "7" -> 7
      [] ch = "8" -> 8 [] ch = "9" -> 9

DigitChar(d) ==
    CASE d = 0 -> "0" [] d = 1 -> "1" [] d = 2 -> "2" [] d = 3 -> "3"
      [] d = 4 -> "4" [] d = 5 -> "5" [] d = 6 -> "6" [] d = 7 -> "7"
      [] d = 8 -> "8" [] d = 9 -> "9"

(***************************************************************************)
(* Text helpers.                                                           *)
(***************************************************************************)
\* all texts over the alphabet A of length at most n
RECURSIVE Strings(_, _)
Strings(A, n) ==
    IF n = 0 THEN {<<>>}
    ELSE LET shorter == Strings(A, n - 1)
         IN  shorter \cup {Append(s, a) : s \in {x \in shorter : Len(x) = n - 1}, a \in A}

\* number of positions of s holding ch
RECURSIVE CountChar(_, _)
CountChar(s, ch) ==
    IF s = <<>> THEN 0
    ELSE (IF Head(s) = ch THEN 1 ELSE 0) + CountChar(Tail(s), ch)

\* str::repeat
RECURSIVE repeat(_, _)
repeat(s, n) == IF n <= 0 THEN <<>> ELSE s \o repeat(s, n - 1)

\* decimal digits of a natural number, i64::to_string for n >= 0
RECURSIVE NatToString(_)
NatToString(n) ==
    IF n < 10 THEN <<DigitChar(n)>>
    ELSE Append(NatToString(n \div 10), DigitChar(n % 10))

\* i64::to_string
IntToString(i) == IF i < 0 THEN <<"-">> \o NatToString(0 - i) ELSE NatToString(i)

\* bool::to_string
BoolToString(b) == IF b THEN <<"t", "r", "u", "e">> ELSE <<"f", "a", "l", "s", "e">>

(***************************************************************************)
(* Value and Context (lib.rs).  A Context maps keys (texts) to Values.     *)
(***************************************************************************)
StringValue(s) == [kind |-> "String", s |-> s, i |-> 0, b |-> FALSE]
IntValue(i) == [kind |-> "Int", s |-> <<>>, i |-> i, b |-> FALSE]
BoolValue(b) == [kind |-> "Bool", s |-> <<>>, i |-> 0, b |-> b]

\* impl ToString for Value
Value_to_string(v) ==
    CASE v.kind = "String" -> v.s
      [] v.kind = "Int" -> IntToString(v.i)
      [] v.kind = "Bool" -> BoolToString(v.b)

\* HashMap::get: is the key present
ctx_has(c, key) == key \in DOMAIN c
\* all Contexts over the keys K with values in V
ContextsOver(K, V) == UNION {[D -> V] : D \in SUBSET K}
EmptyContext == [k \in {} |-> IntValue(0)]

(***************************************************************************)
(* Token (lib.rs).  The text variant is spelled Literal in lib.rs and      *)
(* Slice in directives.rs; the model calls it Slice.                       *)
(***************************************************************************)
DelimiterToken(ch) == [kind |-> "Delimiter", s |-> <<>>, ch |-> ch, i |-> 0]
SliceToken(s) == [kind |-> "Slice", s |-> s, ch |-> "", i |-> 0]
SymbolToken(ch) == [kind |-> "Symbol", s |-> <<>>, ch |-> ch, i |-> 0]
IntToken(i) == [kind |-> "Int", s |-> <<>>, ch |-> "", i |-> i]
UnknownToken(ch) == [kind |-> "Unknown", s |-> <<>>, ch |-> ch, i |-> 0]

\* impl Display for Token
Token_to_string(tok) ==
    CASE tok.kind = "Slice" -> tok.s
      [] tok.kind = "Int" -> IntToString(tok.i)
      [] OTHER -> <<tok.ch>>

(***************************************************************************)
(* number.parse::<i64>(): the value of a run of ASCII digits, or an error  *)
(* when it exceeds i64::MAX.  The range test compares digit texts.         *)
(***************************************************************************)
I64MaxDigits ==
    <<"9", "2", "2", "3", "3", "7", "2", "0", "3", "6", "8", "5", "4", "7", "7", "5", "8", "0", "7">>

RECURSIVE StripZeros(_)
StripZeros(ds) ==
    IF Len(ds) > 1 /\ Head(ds) = "0" THEN StripZeros(Tail(ds)) ELSE ds

RECURSIVE DigitsGreater(_, _)
DigitsGreater(a, b) ==
    IF a = <<>> THEN FALSE
    ELSE IF DigitVal(Head(a)) # DigitVal(Head(b)) THEN DigitVal(Head(a)) > DigitVal(Head(b))
    ELSE DigitsGreater(Tail(a), Tail(b))

RECURSIVE DigitsValue(_)
DigitsValue(ds) ==
    IF ds = <<>> THEN 0
    ELSE 10 * DigitsValue(SubSeq(ds, 1, Len(ds) - 1)) + DigitVal(ds[Len(ds)])

parse_i64_fits(ds) ==
    LET z == StripZeros(ds)
    IN  Len(z) < Len(I64MaxDigits) \/ (Len(z) = Len(I64MaxDigits) /\ ~DigitsGreater(z, I64MaxDigits))

(***************************************************************************)
(* Template::tokenize (lib.rs).  st holds the locals of the loop: tokens,  *)
(* literal, number; panic records a failed unwrap() of number.parse.       *)
(***************************************************************************)
flush_number(st) ==
    IF st.number = <<>> THEN st
    ELSE IF ~parse_i64_fits(st.number) THEN [st EXCEPT !.panic = TRUE, !.number = <<>>]
    ELSE [st EXCEPT !.tokens = Append(@, IntToken(DigitsValue(st.number))), !.number = <<>>]

flush_literal(st) ==
    IF st.literal = <<>> THEN st
    ELSE [st EXCEPT !.tokens = Append(@, SliceToken(st.literal)), !.literal = <<>>]

tokenize_char(st, ch) ==
    IF ch = O \/ ch = C THEN
        LET f == flush_literal(flush_number(st))
        IN  [f EXCEPT !.tokens = Append(@, DelimiterToken(ch))]
    ELSE IF is_alphabetic(ch) \/ ch = "_" \/ is_whitespace(ch) THEN
        LET f == flush_number(st)
        IN  [f EXCEPT !.literal = Append(@, ch)]
    ELSE IF is_ascii_digit(ch) THEN
        LET f == flush_literal(st)
        IN  [f EXCEPT !.number = Append(@, ch)]
    ELSE IF ~is_alphanumeric(ch) /\ ~is_whitespace(ch) THEN
        LET f == flush_literal(flush_number(st))
        IN  [f EXCEPT !.tokens = Append(@, SymbolToken(ch))]
    ELSE st

RECURSIVE tokenize_loop(_, _, _)
tokenize_loop(input, i, st) ==
    IF st.panic THEN st
    ELSE IF i > Len(input) THEN flush_number(flush_literal(st))
    ELSE tokenize_loop(input, i + 1, tokenize_char(st, input[i]))

tokenize(input) ==
    tokenize_loop(input, 1, [tokens |-> <<>>, literal |-> <<>>, number |-> <<>>, panic |-> FALSE])

(***************************************************************************)
(* Directives (directives.rs).  A directive is a record of its kind and    *)
(* its texts a, b, c; NoneDirective is the Option::None of Parser::parse.  *)
(***************************************************************************)
NoneDirective == [kind |-> "None", a |-> <<>>, b |-> <<>>, c |-> <<>>]
NoDirective(content) == [kind |-> "NoDirective", a |-> content, b |-> <<>>, c |-> <<>>]
ReplaceDirective(name) == [kind |-> "Replace", a |-> name, b |-> <<>>, c |-> <<>>]
RepeatDirective(pattern, count) == [kind |-> "Repeat", a |-> pattern, b |-> count, c |-> <<>>]
ConditionalDirective(condition, part1, part2) ==
    [kind |-> "Conditional", a |-> condition, b |-> part1, c |-> part2]
MockDirective(content) == [kind |-> "Mock", a |-> content, b |-> <<>>, c |-> <<>>]

\* Result<String, TemplateError> of execute and format
OkText(s) == [ok |-> TRUE, text |-> s, err |-> "", arg |-> <<>>]
ErrText(e, a) == [ok |-> FALSE, text |-> <<>>, err |-> e, arg |-> a]

RepeatCountMessage == <<"Could not parse a numeric value for the repeat count">>

\* str::parse::<usize>: an optional '+' followed by at least one ASCII digit.
\* The texts reaching it come from one token, whose digits fit i64 and so usize.
parse_usize(s) ==
    LET ds == IF s # <<>> /\ Head(s) = "+" THEN Tail(s) ELSE s
    IN  IF ds # <<>> /\ \A k \in 1..Len(ds) : is_ascii_digit(ds[k])
        THEN [ok |-> TRUE, n |-> DigitsValue(ds)]
        ELSE [ok |-> FALSE, n |-> 0]

\* a Replace that falls back to the name itself, as Repeat does for its pattern
Replace_execute_fallback(d, c) ==
    IF ctx_has(c, d.a) THEN OkText(Value_to_string(c[d.a])) ELSE OkText(d.a)

\* ReplaceDirective::execute
Replace_execute(d, c) ==
    IF ctx_has(c, d.a) THEN OkText(Value_to_string(c[d.a]))
    ELSE ErrText("NoValueFound", d.a)

\* a pattern operand that is never looked up in the Context
Repeat_pattern_literal_only(d, c) == d.a

\* RepeatDirective::execute, the pattern operand
Repeat_pattern(d, c) ==
    IF ctx_has(c, d.a) THEN Value_to_string(c[d.a]) ELSE d.a

\* RepeatDirective::execute, the guard on a count taken from the Context
Repeat_count_guard(v) == v.kind = "Int" /\ v.i > 0

\* RepeatDirective::execute, the count operand
Repeat_count(d, c) ==
    IF ctx_has(c, d.b) THEN
        IF Repeat_count_guard(c[d.b]) THEN [ok |-> TRUE, n |-> c[d.b].i]
        ELSE [ok |-> FALSE, n |-> 0]
    ELSE parse_usize(d.b)

\* RepeatDirective::execute
Repeat_execute(d, c) ==
    LET pattern == Repeat_pattern(d, c)
        count == Repeat_count(d, c)
    IN  IF ~count.ok THEN ErrText("ExecutionError", RepeatCountMessage)
        ELSE OkText(repeat(pattern, count.n))

\* a Conditional whose branches are resolved against the Context, as the
\* pattern of a Repeat is
Conditional_execute_resolving(d, c) ==
    LET condition ==
            IF ctx_has(c, d.a) THEN
                (IF c[d.a].kind = "Bool" THEN c[d.a].b ELSE TRUE)
            ELSE FALSE
        branch == IF condition THEN d.b ELSE d.c
    IN  IF ctx_has(c, branch) THEN OkText(Value_to_string(c[branch])) ELSE OkText(branch)

\* ConditionalDirective::execute
Conditional_execute(d, c) ==
    LET condition ==
            IF ctx_has(c, d.a) THEN
                (IF c[d.a].kind = "Bool" THEN c[d.a].b ELSE TRUE)
            ELSE FALSE
    IN  IF condition THEN OkText(d.b) ELSE OkText(d.c)

\* unrecognised content treated as a name that has no value
NoDirective_execute_missing(d, c) == ErrText("NoValueFound", d.a)

\* NoDirective::execute
NoDirective_execute(d, c) == OkText(d.a)

\* MockDirective::execute of the parsing tests
Mock_execute(d, c) ==
    OkText(<<"D", "I", "R", "E", "C", "T", "I", "V", "E", "[">> \o d.a \o <<"]">>)

\* Directive::execute, dispatched on the boxed directive
execute(d, c) ==
    CASE d.kind = "Replace" -> Replace_execute(d, c)
      [] d.kind = "Repeat" -> Repeat_execute(d, c)
      [] d.kind = "Conditional" -> Conditional_execute(d, c)
      [] d.kind = "NoDirective" -> NoDirective_execute(d, c)
      [] d.kind = "Mock" -> Mock_execute(d, c)

(***************************************************************************)
(* Parser strategies: DefaultParser (directives.rs), MockParser and        *)
(* FailingParser (the parsing tests of lib.rs).                            *)
(***************************************************************************)
DefaultParser_parse(tokens, content) ==
    IF Len(tokens) = 1 /\ tokens[1].kind = "Slice" THEN
        ReplaceDirective(tokens[1].s)
    ELSE IF Len(tokens) = 3 /\ tokens[2] = SymbolToken(":") THEN
        RepeatDirective(Token_to_string(tokens[1]), Token_to_string(tokens[3]))
    ELSE IF /\ Len(tokens) = 5
            /\ tokens[1].kind = "Slice"
            /\ tokens[2] = SymbolToken("?")
            /\ tokens[3].kind = "Slice"
            /\ tokens[4] = SymbolToken(":")
            /\ tokens[5].kind = "Slice" THEN
        ConditionalDirective(tokens[1].s, tokens[3].s, tokens[5].s)
    ELSE NoDirective(content)

MockParser_parse(tokens, content) == MockDirective(content)

\* str::contains
Contains(s, sub) ==
    \E k \in 0..(Len(s) - Len(sub)) : SubSeq(s, k + 1, k + Len(sub)) = sub

FailingParser_parse(tokens, content) ==
    IF Contains(content, <<"f", "a", "i", "l">>) THEN NoneDirective
    ELSE MockDirective(content)

\* P::parse for the strategy P the template is parsed with
P_parse(tokens, content) ==
    CASE P = "DefaultParser" -> DefaultParser_parse(tokens, content)
      [] P = "MockParser" -> MockParser_parse(tokens, content)
      [] P = "FailingParser" -> FailingParser_parse(tokens, content)

(***************************************************************************)
(* Template::validate_delimiters (lib.rs).  The result carries the number  *)
(* of characters the iterator had yielded when the function returned.      *)
(***************************************************************************)
ValidateOk(n) == [ok |-> TRUE, err |-> "", ch |-> "", consumed |-> n]
ValidateErr(e, ch, n) == [ok |-> FALSE, err |-> e, ch |-> ch, consumed |-> n]

\* Peekable::peek: the character after position i, "" for None
peek(input, i) == IF i + 1 <= Len(input) THEN input[i + 1] ELSE ""

\* the symmetric branch: chars.filter(|c| *c != C).count() % 2 != 0
validate_symmetric(input) ==
    IF (Len(input) - CountChar(input, C)) % 2 # 0
    THEN ValidateErr("MissingDelimiter", O, Len(input))
    ELSE ValidateOk(Len(input))

\* the error naming the character that was met instead of the one missing
missing_open_names_close(i) == ValidateErr("MissingOpenDelimiter", C, i)

\* return Err(TemplateError::MissingOpenDelimiter(O)), reached at position i
missing_open(i) == ValidateErr("MissingOpenDelimiter", O, i)

\* the check after the scan, off by one
validate_end_off_by_one(depth, n) ==
    IF depth > 1 THEN ValidateErr("MissingClosedDelimiter", C, n) ELSE ValidateOk(n)

\* the check after the scan: depth > 0 is MissingClosedDelimiter(C)
validate_end(depth, n) ==
    IF depth > 0 THEN ValidateErr("MissingClosedDelimiter", C, n) ELSE ValidateOk(n)

RECURSIVE validate_loop(_, _, _)
validate_loop(input, i, depth) ==
    IF i > Len(input) THEN validate_end(depth, Len(input))
    ELSE IF input[i] = O THEN
        IF peek(input, i) = O THEN validate_loop(input, i + 2, depth)
        ELSE validate_loop(input, i + 1, depth + 1)
    ELSE IF input[i] = C THEN
        IF peek(input, i) = C THEN validate_loop(input, i + 2, depth)
        ELSE IF depth - 1 < 0 THEN missing_open(i)
        ELSE validate_loop(input, i + 1, depth - 1)
    ELSE validate_loop(input, i + 1, depth)

validate_delimiters(input) ==
    IF C = O THEN validate_symmetric(input) ELSE validate_loop(input, 1, 0)

(***************************************************************************)
(* Alignment and Part (lib.rs).                                            *)
(***************************************************************************)
\* a marker table without the center marker
Alignment_from_char_no_center(ch) ==
    CASE ch = "<" -> "Left" [] ch = ">" -> "Right" [] OTHER -> ""

\* Alignment::from_char, "" for None
Alignment_from_char(ch) ==
    CASE ch = "<" -> "Left" [] ch = ">" -> "Right" [] ch = "^" -> "Center" [] OTHER -> ""

LiteralPart(s) == [kind |-> "Literal", s |-> s, d |-> NoneDirective]
DirectivePart(d) == [kind |-> "Directive", s |-> <<>>, d |-> d]

(***************************************************************************)
(* Template::parse (lib.rs).  The result is Ok with parts and alignment,   *)
(* or Err with the error, its character (delimiter errors) or its text     *)
(* (DirectiveParsing).  log lists the calls parse made, in order; eof      *)
(* counts the inner bracket scans that ran into the end of the input and   *)
(* stray the single C characters taken as literal text outside a segment.  *)
(***************************************************************************)
ParseErr(e, ch, arg, log) ==
    [ok |-> FALSE, err |-> e, ch |-> ch, arg |-> arg, parts |-> <<>>, alignment |-> "",
     log |-> log, eof |-> 0, stray |-> 0]

\* an inner scan passing over a doubled C the way the validator does
RECURSIVE inner_scan_skips_escapes(_, _)
inner_scan_skips_escapes(input, i) ==
    IF i + 1 > Len(input) THEN Len(input) + 1
    ELSE IF input[i + 1] = C THEN
        IF peek(input, i + 1) = C THEN inner_scan_skips_escapes(input, i + 2) ELSE i + 1
    ELSE inner_scan_skips_escapes(input, i + 1)

\* position of the first C after position i, Len(input) + 1 when the inner
\* scan runs into the end of the input
RECURSIVE inner_scan(_, _)
inner_scan(input, i) ==
    IF i + 1 > Len(input) THEN Len(input) + 1
    ELSE IF input[i + 1] = C THEN i + 1
    ELSE inner_scan(input, i + 1)

\* a flush pushing the accumulated literal whether or not it is empty
push_literal_unconditional(parts, literal) == Append(parts, LiteralPart(literal))

\* if !literal.is_empty() { parts.push(Part::Literal(literal)) }
push_literal(parts, literal) ==
    IF literal # <<>> THEN Append(parts, LiteralPart(literal)) ELSE parts

\* the bracket arm reporting the content as written, marker included
parse_segment_raw_error(input, st) ==
    LET j == inner_scan(input, st.i)
        raw == SubSeq(input, st.i + 1, j - 1)
        a == IF raw = <<>> THEN "" ELSE Alignment_from_char(raw[Len(raw)])
        content == IF a # "" THEN SubSeq(raw, 1, Len(raw) - 1) ELSE raw
        tk == tokenize(content)
        d == P_parse(tk.tokens, content)
        flushed == push_literal(st.parts, st.literal)
    IN  IF tk.panic THEN
            [st EXCEPT !.failed = TRUE, !.err = "panic", !.log = Append(@, "tokenize")]
        ELSE IF d = NoneDirective THEN
            [st EXCEPT !.failed = TRUE, !.err = "DirectiveParsing", !.arg = raw,
                       !.log = @ \o <<"tokenize", "P::parse">>]
        ELSE
            [st EXCEPT !.i = j + 1, !.literal = <<>>,
                       !.eof = IF j > Len(input) THEN @ + 1 ELSE @,
                       !.alignment = IF a # "" THEN a ELSE @,
                       !.parts = Append(flushed, DirectivePart(d)),
                       !.log = @ \o <<"tokenize", "P::parse">>]

\* the bracket arm taking the alignment from the segment parsed last, marked or not
parse_segment_resets_alignment(input, st) ==
    LET j == inner_scan(input, st.i)
        raw == SubSeq(input, st.i + 1, j - 1)
        a == IF raw = <<>> THEN "" ELSE Alignment_from_char(raw[Len(raw)])
        content == IF a # "" THEN SubSeq(raw, 1, Len(raw) - 1) ELSE raw
        tk == tokenize(content)
        d == P_parse(tk.tokens, content)
        flushed == push_literal(st.parts, st.literal)
    IN  IF tk.panic THEN
            [st EXCEPT !.failed = TRUE, !.err = "panic", !.log = Append(@, "tokenize")]
        ELSE IF d = NoneDirective THEN
            [st EXCEPT !.failed = TRUE, !.err = "DirectiveParsing", !.arg = content,
                       !.log = @ \o <<"tokenize", "P::parse">>]
        ELSE
            [st EXCEPT !.i = j + 1, !.literal = <<>>,
                       !.eof = IF j > Len(input) THEN @ + 1 ELSE @,
                       !.alignment = IF a # "" THEN a ELSE "Left",
                       !.parts = Append(flushed, DirectivePart(d)),
                       !.log = @ \o <<"tokenize", "P::parse">>]

\* the bracket arm of the scan, entered on an unescaped O at position i
parse_segment(input, st) ==
    LET j == inner_scan(input, st.i)
        raw == SubSeq(input, st.i + 1, j - 1)
        a == IF raw = <<>> THEN "" ELSE Alignment_from_char(raw[Len(raw)])
        content == IF a # "" THEN SubSeq(raw, 1, Len(raw) - 1) ELSE raw
        tk == tokenize(content)
        d == P_parse(tk.tokens, content)
        flushed == push_literal(st.parts, st.literal)
    IN  IF tk.panic THEN
            [st EXCEPT !.failed = TRUE, !.err = "panic", !.log = Append(@, "tokenize")]
        ELSE IF d = NoneDirective THEN
            [st EXCEPT !.failed = TRUE, !.err = "DirectiveParsing", !.arg = content,
                       !.log = @ \o <<"tokenize", "P::parse">>]
        ELSE
            [st EXCEPT !.i = j + 1, !.literal = <<>>,
                       !.eof = IF j > Len(input) THEN @ + 1 ELSE @,
                       !.alignment = IF a # "" THEN a ELSE @,
                       !.parts = Append(flushed, DirectivePart(d)),
                       !.log = @ \o <<"tokenize", "P::parse">>]

\* one iteration of `while let Some(ch) = chars.next()`
parse_char(input, st) ==
    LET ch == input[st.i]
    IN  IF ch = O THEN
            IF peek(input, st.i) = O
            THEN [st EXCEPT !.i = @ + 2, !.literal = Append(@, O)]
            ELSE parse_segment(input, st)
        ELSE IF ch = C THEN
            IF peek(input, st.i) = C
            THEN [st EXCEPT !.i = @ + 2, !.literal = Append(@, C)]
            ELSE [st EXCEPT !.i = @ + 1, !.literal = Append(@, C), !.stray = @ + 1]
        ELSE [st EXCEPT !.i = @ + 1, !.literal = Append(@, ch)]

RECURSIVE parse_loop(_, _)
parse_loop(input, st) ==
    IF st.failed THEN ParseErr(st.err, "", st.arg, st.log)
    ELSE IF st.i > Len(input) THEN
        [ok |-> TRUE, err |-> "", ch |-> "", arg |-> <<>>,
         parts |-> push_literal(st.parts, st.literal),
         alignment |-> st.alignment, log |-> st.log, eof |-> st.eof, stray |-> st.stray]
    ELSE parse_loop(input, parse_char(input, st))

parse(input) ==
    LET v == validate_delimiters(input)
    IN  IF ~v.ok THEN ParseErr(v.err, v.ch, <<>>, <<"validate_delimiters">>)
        ELSE parse_loop(input,
                [i |-> 1, literal |-> <<>>, alignment |-> "Left", parts |-> <<>>,
                 failed |-> FALSE, err |-> "", arg |-> <<>>,
                 log |-> <<"validate_delimiters">>, eof |-> 0, stray |-> 0])

(***************************************************************************)
(* Template::format (lib.rs).                                              *)
(***************************************************************************)
RECURSIVE format_loop(_, _, _, _)
format_loop(parts, k, c, result) ==
    IF k > Len(parts) THEN OkText(result)
    ELSE IF parts[k].kind = "Literal" THEN format_loop(parts, k + 1, c, result \o parts[k].s)
    ELSE LET r == execute(parts[k].d, c)
         IN  IF ~r.ok THEN r ELSE format_loop(parts, k + 1, c, result \o r.text)

format(template, c) == format_loop(template.parts, 1, c, <<>>)

(***************************************************************************)
(* The callers: a template text is parsed once and the Template, when      *)
(* there is one, is formatted any number of times with Contexts.           *)
(***************************************************************************)
NoTemplate == ParseErr("", "", <<>>, <<>>)
NoOutput == ErrText("", <<>>)
NoTokens == [tokens |-> <<>>, literal |-> <<>>, number |-> <<>>, panic |-> FALSE]

(***************************************************************************)
(* ThreadedWalk (walk.rs).  The directory tree is a root r with entries a  *)
(* and b, and an entry c of a; tree gives every node its kind: a readable  *)
(* directory, a directory read_dir fails on, a regular file, a hidden      *)
(* regular file, or a symlink.  tasks are the calls of the spawned walk    *)
(* that are still to run on some thread of the pool: a walk of a directory *)
(* or the for_each closure of one entry.  tx is "none" before the channel  *)
(* exists, "alive" while the spawned closure holds the Sender and          *)
(* "dropped" after it returned; chan is the channel, sent and received     *)
(* list every message sent and received; spawned counts rayon::spawn and   *)
(* nones the calls of next() that returned None.                           *)
(***************************************************************************)
\* the largest max_depth tried, and the calls of next() made after the first None
MaxWalkDepth == 3
MaxExtraNext == 1

WalkNodes == {"r", "a", "b", "c"}
WalkRoot == "r"
WalkParent == [n \in WalkNodes \ {WalkRoot} |-> IF n = "c" THEN "a" ELSE "r"]
WalkEntries(n) == {m \in WalkNodes \ {WalkRoot} : WalkParent[m] = n}
RootKinds == {"dir", "locked"}
EntryKinds == {"dir", "locked", "file", ".file", "symlink"}

\* name.starts_with('.')
is_hidden(kind) == kind = ".file"
\* ft.is_dir()
is_dir(kind) == kind \in {"dir", "locked"}
\* ft.is_file()
is_file(kind) == kind \in {"file", ".file"}
\* std::fs::read_dir(&path) is Ok
read_dir_ok(kind) == kind = "dir"

WalkTask(op, n, depth) == [op |-> op, node |-> n, depth |-> depth]

\* ThreadedWalk::new(path) with its options set
NewWalk(tree, max_depth, skip_hidden) ==
    [pc |-> "idle", started |-> FALSE, spawned |-> 0, tx |-> "none", tasks |-> {},
     chan |-> <<>>, sent |-> <<>>, received |-> <<>>, nones |-> 0,
     tree |-> tree, max_depth |-> max_depth, skip_hidden |-> skip_hidden]

NoWalk == [NewWalk([n \in WalkNodes |-> "file"], 0, TRUE) EXCEPT !.pc = "off"]

\* let _ = tx.send((path, depth))
send(w, n, depth) ==
    [w EXCEPT !.chan = Append(@, <<n, depth>>), !.sent = Append(@, <<n, depth>>)]

\* ThreadedWalk::start
start(w) ==
    IF w.started THEN w
    ELSE [w EXCEPT !.started = TRUE, !.spawned = @ + 1, !.tx = "alive", !.chan = <<>>,
                   !.tasks = {WalkTask("walk", WalkRoot, 1)}]

\* ThreadedWalk::walk for a directory, up to the fan-out over its entries
walk(w, task) ==
    LET rest == [w EXCEPT !.tasks = @ \ {task}]
    IN  IF task.depth > w.max_depth THEN rest
        ELSE IF ~read_dir_ok(w.tree[task.node]) THEN send(rest, task.node, task.depth)
        ELSE [send(rest, task.node, task.depth) EXCEPT
                !.tasks = @ \cup {WalkTask("entry", m, task.depth) : m \in WalkEntries(task.node)}]

\* the for_each closure of ThreadedWalk::walk for one entry
walk_entry(w, task) ==
    LET rest == [w EXCEPT !.tasks = @ \ {task}]
        kind == w.tree[task.node]
    IN  IF is_hidden(kind) /\ w.skip_hidden THEN rest
        ELSE IF is_dir(kind) THEN
            [rest EXCEPT !.tasks = @ \cup {WalkTask("walk", task.node, task.depth + 1)}]
        ELSE IF is_file(kind) THEN send(rest, task.node, task.depth)
        ELSE rest

\* a closure that keeps its Sender after the walk returned
walk_return_keeps_sender(w) == [w EXCEPT !.tasks = {}]

\* the spawned closure returns and drops tx
walk_return(w) == [w EXCEPT !.tx = "dropped"]

\* rx.recv().ok(): the next message, or None once the Sender is gone
recv(w) ==
    IF w.chan # <<>>
    THEN [w EXCEPT !.received = Append(@, Head(w.chan)), !.chan = Tail(@), !.pc = "idle"]
    ELSE [w EXCEPT !.nones = @ + 1, !.pc = "idle"]

\* next() is called: self.start(), then the thread waits in recv
WalkNext ==
    /\ tw.pc = "idle"
    /\ tw.nones <= MaxExtraNext
    /\ tw' = [start(tw) EXCEPT !.pc = "recv"]
    /\ UNCHANGED <<O, C, P, t, pc, tpl, ctx, out, calls, ls, toks>>

\* recv returns: a message is queued, or the channel is empty and disconnected
WalkRecv ==
    /\ tw.pc = "recv"
    /\ tw.chan # <<>> \/ tw.tx = "dropped"
    /\ tw' = recv(tw)
    /\ UNCHANGED <<O, C, P, t, pc, tpl, ctx, out, calls, ls, toks>>

\* a thread of the pool runs the walk of one directory
WalkVisit ==
    /\ \E task \in tw.tasks :
        /\ task.op = "walk"
        /\ tw' = walk(tw, task)
    /\ UNCHANGED <<O, C, P, t, pc, tpl, ctx, out, calls, ls, toks>>

\* a thread of the pool runs the closure of one entry
WalkEntry ==
    /\ \E task \in tw.tasks :
        /\ task.op = "entry"
        /\ tw' = walk_entry(tw, task)
    /\ UNCHANGED <<O, C, P, t, pc, tpl, ctx, out, calls, ls, toks>>

\* every for_each has joined: the root walk and the spawned closure return
WalkReturn ==
    /\ tw.tx = "alive"
    /\ tw.tasks = {}
    /\ tw' = walk_return(tw)
    /\ UNCHANGED <<O, C, P, t, pc, tpl, ctx, out, calls, ls, toks>>

\* let tokens = Template::<O, C>::tokenize(t)
Tokenize ==
    /\ pc = "new"
    /\ toks' = tokenize(t)
    /\ pc' = "tokenized"
    /\ UNCHANGED <<O, C, P, t, tpl, ctx, out, calls, ls, tw>>

(***************************************************************************)
(* Template::format step by step, for callers that share one Template.     *)
(* A call holds what format holds on its stack: the borrowed Context, the  *)
(* position k of the iterator over self.parts and the String result;       *)
(* executed lists the parts whose directive the call has executed.         *)
(***************************************************************************)
Workers == {"w1", "w2", "w3"}

IdleCall ==
    [state |-> "idle", ctx |-> EmptyContext, k |-> 0, result |-> <<>>,
     ret |-> NoOutput, executed |-> <<>>]
NoCalls == [w \in Workers |-> IdleCall]

\* a call that starts on what a failed call left behind
format_enter_after_failure(c) ==
    [state |-> "running", ctx |-> c, k |-> 1,
     result |-> IF \E w \in Workers : calls[w].state = "done" /\ ~calls[w].ret.ok
                THEN <<"?">> ELSE <<>>,
     ret |-> NoOutput, executed |-> <<>>]

\* a call that starts on the buffer of a call still running
format_enter_shared_buffer(c) ==
    [state |-> "running", ctx |-> c, k |-> 1,
     result |-> IF \E w \in Workers : calls[w].state = "running"
                THEN calls[CHOOSE w \in Workers : calls[w].state = "running"].result
                ELSE <<>>,
     ret |-> NoOutput, executed |-> <<>>]

\* fn format(&self, ctx: &Context) { let mut result = String::new(); ...
format_enter(c) ==
    [state |-> "running", ctx |-> c, k |-> 1, result |-> <<>>,
     ret |-> NoOutput, executed |-> <<>>]

\* an iteration that drops a failing directive and goes on
format_step_skips_failure(template, call) ==
    IF call.k > Len(template.parts) THEN
        [call EXCEPT !.state = "done", !.ret = OkText(call.result), !.result = <<>>]
    ELSE LET part == template.parts[call.k]
         IN  IF part.kind = "Literal" THEN
                 [call EXCEPT !.k = @ + 1, !.result = @ \o part.s]
             ELSE LET r == execute(part.d, call.ctx)
                  IN  [call EXCEPT !.k = @ + 1, !.result = @ \o r.text,
                                   !.executed = Append(@, call.k)]

\* an iteration that empties the Context once the call is over
format_step_clears_context(template, call) ==
    IF call.k > Len(template.parts) THEN
        [call EXCEPT !.state = "done", !.ret = OkText(call.result), !.result = <<>>,
                     !.ctx = EmptyContext]
    ELSE LET part == template.parts[call.k]
         IN  IF part.kind = "Literal" THEN
                 [call EXCEPT !.k = @ + 1, !.result = @ \o part.s]
             ELSE LET r == execute(part.d, call.ctx)
                  IN  IF ~r.ok THEN
                          [call EXCEPT !.state = "done", !.ret = r, !.result = <<>>,
                                       !.executed = Append(@, call.k), !.ctx = EmptyContext]
                      ELSE
                          [call EXCEPT !.k = @ + 1, !.result = @ \o r.text,
                                       !.executed = Append(@, call.k)]

\* one iteration of `for part in &self.parts`, or the Ok(result) after the
\* last one; the ? on execute returns the error and drops result
format_step(template, call) ==
    IF call.k > Len(template.parts) THEN
        [call EXCEPT !.state = "done", !.ret = OkText(call.result), !.result = <<>>]
    ELSE LET part == template.parts[call.k]
         IN  IF part.kind = "Literal" THEN
                 [call EXCEPT !.k = @ + 1, !.result = @ \o part.s]
             ELSE LET r == execute(part.d, call.ctx)
                  IN  IF ~r.ok THEN
                          [call EXCEPT !.state = "done", !.ret = r, !.result = <<>>,
                                       !.executed = Append(@, call.k)]
                      ELSE
                          [call EXCEPT !.k = @ + 1, !.result = @ \o r.text,
                                       !.executed = Append(@, call.k)]

\* let tpl = Template::<O, C>::parse::<P>(t)
Parse ==
    /\ pc = "new"
    /\ tpl' = parse(t)
    /\ pc' = "parsed"
    /\ UNCHANGED <<O, C, P, t, ctx, out, calls, ls, toks, tw>>

\* let out = tpl.format(&c), for a Context c of K
Format(K) ==
    /\ pc \in {"parsed", "formatted"}
    /\ tpl.ok
    /\ \E c \in K :
        /\ ctx' = c
        /\ out' = format(tpl, c)
    /\ pc' = "formatted"
    /\ UNCHANGED <<O, C, P, t, tpl, calls, ls, toks, tw>>

\* worker w calls tpl.format(&c) with a Context c of K that is its own
Call(w, K) ==
    /\ pc = "parsed"
    /\ tpl.ok
    /\ calls[w].state \in {"idle", "done"}
    /\ \E c \in K : calls' = [calls EXCEPT ![w] = format_enter(c)]
    /\ UNCHANGED <<O, C, P, t, pc, tpl, ctx, out, ls, toks, tw>>

\* the call of worker w advances by one part
Step(w) ==
    /\ calls[w].state = "running"
    /\ calls' = [calls EXCEPT ![w] = format_step(tpl, calls[w])]
    /\ UNCHANGED <<O, C, P, t, pc, tpl, ctx, out, ls, toks, tw>>

(***************************************************************************)
(* The list command (commands/list.rs, execute).  format is config.format, *)
(* entries the Contexts built for the directory entries the walk yields,   *)
(* templates the parsed format strings, rows the rows of the Table, handle *)
(* the lines written to stdout, ret the value execute returns; parsed      *)
(* counts the format strings Template::parse was called on.                *)
(***************************************************************************)
NoListing ==
    [pc |-> "off", format |-> <<>>, entries |-> <<>>, templates |-> <<>>, parsed |-> 0,
     entry |-> 0, rows |-> <<>>, handle |-> <<>>, ret |-> "", err |-> NoTemplate]
NewListing(formats, entries) ==
    [NoListing EXCEPT !.pc = "templates", !.format = formats, !.entries = entries]

ErrorLine(r) == [line |-> "error", err |-> r.err, arg |-> r.arg, n |-> 0]
TotalLine(n) == [line |-> "total", err |-> "", arg |-> <<>>, n |-> n]
TableLine(n) == [line |-> "table", err |-> "", arg |-> <<>>, n |-> n]
Cell(text, alignment) == [text |-> text, alignment |-> alignment]

\* config.format.iter().map(|t| Template::parse(t)).collect::<Result<Vec<_>, _>>()
RECURSIVE collect_templates(_, _, _)
collect_templates(formats, k, acc) ==
    IF k > Len(formats) THEN
        [ok |-> TRUE, templates |-> acc, err |-> NoTemplate, parsed |-> Len(formats)]
    ELSE LET r == parse(formats[k])
         IN  IF ~r.ok THEN [ok |-> FALSE, templates |-> <<>>, err |-> r, parsed |-> k]
             ELSE collect_templates(formats, k + 1, Append(acc, r))

\* a row loop that gives up the entry's remaining templates at the first error
RECURSIVE format_row_stops_at_error(_, _, _, _, _)
format_row_stops_at_error(templates, k, c, row, handle) ==
    IF k > Len(templates) THEN [row |-> row, handle |-> handle]
    ELSE LET r == format(templates[k], c)
         IN  IF r.ok
             THEN format_row_stops_at_error(templates, k + 1, c,
                             Append(row, Cell(r.text, templates[k].alignment)), handle)
             ELSE [row |-> row, handle |-> Append(handle, ErrorLine(r))]

\* for t in &templates { match t.format(&context) { Ok => row.push, Err => writeln, continue } }
RECURSIVE format_row(_, _, _, _, _)
format_row(templates, k, c, row, handle) ==
    IF k > Len(templates) THEN [row |-> row, handle |-> handle]
    ELSE LET r == format(templates[k], c)
         IN  IF r.ok
             THEN format_row(templates, k + 1, c,
                             Append(row, Cell(r.text, templates[k].alignment)), handle)
             ELSE format_row(templates, k + 1, c, row, Append(handle, ErrorLine(r)))

\* Table::add_row
add_row(rows, row) == IF row = <<>> THEN rows ELSE Append(rows, row)

\* let templates = ... .map_err(|e| PlsError::ParsingError(..))?;
ListTemplates ==
    /\ ls.pc = "templates"
    /\ LET r == collect_templates(ls.format, 1, <<>>)
       IN  ls' = IF r.ok
                 THEN [ls EXCEPT !.pc = "walk", !.templates = r.templates, !.parsed = r.parsed]
                 ELSE [ls EXCEPT !.pc = "done", !.ret = "ParsingError", !.err = r.err,
                                 !.parsed = r.parsed]
    /\ UNCHANGED <<O, C, P, t, pc, tpl, ctx, out, calls, toks, tw>>

\* one iteration of `for (entry, i) in DirWalk::new(..)`
ListEntry ==
    /\ ls.pc = "walk"
    /\ ls.entry < Len(ls.entries)
    /\ LET r == format_row(ls.templates, 1, ls.entries[ls.entry + 1], <<>>, ls.handle)
       IN  ls' = [ls EXCEPT !.entry = @ + 1, !.rows = add_row(@, r.row), !.handle = r.handle]
    /\ UNCHANGED <<O, C, P, t, pc, tpl, ctx, out, calls, toks, tw>>

\* writeln!(handle, "total: {}", ..)?; writeln!(handle, "{}", table)?; Ok(())
ListTotal ==
    /\ ls.pc = "walk"
    /\ ls.entry = Len(ls.entries)
    /\ ls' = [ls EXCEPT !.pc = "done", !.ret = "Ok",
                        !.handle = @ \o <<TotalLine(Len(ls.rows)), TableLine(Len(ls.rows))>>]
    /\ UNCHANGED <<O, C, P, t, pc, tpl, ctx, out, calls, toks, tw>>

(***************************************************************************)
(* Spec: every text up to MaxLen over the delimiters and one letter, with  *)
(* distinct delimiters { } and with the symmetric delimiter |.             *)
(***************************************************************************)
DelimiterPairs == {<<"{", "}">>, <<"|", "|">>}
StructAlphabet(d) == {d[1], d[2], "a"}
StructContexts == {EmptyContext, [k \in {<<"a">>} |-> StringValue(<<"h", "i">>)]}

Init ==
    /\ \E d \in DelimiterPairs :
        /\ O = d[1]
        /\ C = d[2]
        /\ t \in Strings(StructAlphabet(d), MaxLen)
    /\ P = "DefaultParser"
    /\ pc = "new"
    /\ tpl = NoTemplate
    /\ ctx = EmptyContext
    /\ out = NoOutput
    /\ calls = NoCalls
    /\ ls = NoListing
    /\ toks = NoTokens
    /\ tw = NoWalk

FormatStruct == Format(StructContexts)

Next == Parse \/ FormatStruct

Spec == Init /\ [][Next]_vars

(***************************************************************************)
(* SpecFormat: one bracket segment between two literals, x{content}!, for  *)
(* every content up to MaxContentLen, formatted with every Context over    *)
(* the keys a and n.                                                       *)
(***************************************************************************)
FormatAlphabet == {"a", "n", ":", "-", "0", "1"}
FormatKeys == {<<"a">>, <<"n">>}
FormatValues ==
    {StringValue(<<"h", "i">>), IntValue(0), IntValue(2), IntValue(0 - 1), BoolValue(TRUE)}
FormatContexts == ContextsOver(FormatKeys, FormatValues)
Wrap(content) == <<"x", "{">> \o content \o <<"}", "!">>

InitFormat ==
    /\ O = "{"
    /\ C = "}"
    /\ P = "DefaultParser"
    /\ t \in {Wrap(content) : content \in Strings(FormatAlphabet, MaxContentLen)}
    /\ pc = "new"
    /\ tpl = NoTemplate
    /\ ctx = EmptyContext
    /\ out = NoOutput
    /\ calls = NoCalls
    /\ ls = NoListing
    /\ toks = NoTokens
    /\ tw = NoWalk

FormatAny == Format(FormatContexts)

NextFormat == Parse \/ FormatAny

SpecFormat == InitFormat /\ [][NextFormat]_vars

(***************************************************************************)
(* SpecDefault: the default grammar on x{content}!, for every content up   *)
(* to MaxCondLen over a b ? : (the conditionals a?b:a among them) and for  *)
(* one content that is a digit run past i64::MAX, formatted with every     *)
(* Context over the keys a and b.                                          *)
(***************************************************************************)
MaxCondLen == 5
CondAlphabet == {"a", "b", "?", ":"}
CondKeys == {<<"a">>, <<"b">>}
CondValues == {BoolValue(TRUE), BoolValue(FALSE), IntValue(0), StringValue(<<"h", "i">>)}
CondContexts == ContextsOver(CondKeys, CondValues)
\* 9223372036854775808, i64::MAX + 1
I64Overflow == [I64MaxDigits EXCEPT ![Len(I64MaxDigits)] = "8"]

InitDefault ==
    /\ O = "{"
    /\ C = "}"
    /\ P = "DefaultParser"
    /\ t \in {Wrap(content) : content \in Strings(CondAlphabet, MaxCondLen) \cup {I64Overflow}}
    /\ pc = "new"
    /\ tpl = NoTemplate
    /\ ctx = EmptyContext
    /\ out = NoOutput
    /\ calls = NoCalls
    /\ ls = NoListing
    /\ toks = NoTokens
    /\ tw = NoWalk

FormatCond == Format(CondContexts)

NextDefault == Parse \/ FormatCond

SpecDefault == InitDefault /\ [][NextDefault]_vars

(***************************************************************************)
(* SpecSegments: one or two bracket segments, {first}{second}, parsed with *)
(* each Parser strategy.  The first content is any text up to MaxMarkLen   *)
(* over a and the three alignment markers, or one the FailingParser        *)
(* rejects; the second segment is absent, unmarked, marked or rejected.    *)
(***************************************************************************)
MaxMarkLen == 4
MarkAlphabet == {"a", "<", ">", "^"}
Fail == <<"f", "a", "i", "l">>
Segment(content) == <<"{">> \o content \o <<"}">>
FirstContents == Strings(MarkAlphabet, MaxMarkLen) \cup {Fail, Fail \o <<"<">>}
SecondSegments ==
    {<<>>} \cup {Segment(c) : c \in {<<"a">>, <<"a", "<">>, <<"a", ">">>, <<"a", "^">>, Fail}}
Parsers == {"DefaultParser", "MockParser", "FailingParser"}

InitSegments ==
    /\ O = "{"
    /\ C = "}"
    /\ P \in Parsers
    /\ t \in {Segment(c) \o s : c \in FirstContents, s \in SecondSegments}
    /\ pc = "new"
    /\ tpl = NoTemplate
    /\ ctx = EmptyContext
    /\ out = NoOutput
    /\ calls = NoCalls
    /\ ls = NoListing
    /\ toks = NoTokens
    /\ tw = NoWalk

NextSegments == Parse \/ FormatStruct

SpecSegments == InitSegments /\ [][NextSegments]_vars

(***************************************************************************)
(* SpecWorkers: a text of up to MaxUnits units (a literal, a Replace, a    *)
(* marked Replace, a Repeat) is parsed once; the workers then format the   *)
(* one Template, each call with its own Context, their iterations          *)
(* interleaved in every order.                                             *)
(***************************************************************************)
MaxUnits == 2
WorkerUnits ==
    {<<"x">>, Segment(<<"a">>), Segment(<<"n", ">">>), Segment(<<"a", ":", "n">>)}
RECURSIVE UnitTexts(_)
UnitTexts(n) ==
    IF n = 0 THEN {<<>>}
    ELSE UnitTexts(n - 1) \cup {s \o u : s \in UnitTexts(n - 1), u \in WorkerUnits}
WorkerContexts ==
    {EmptyContext,
     [k \in {<<"a">>} |-> StringValue(<<"h", "i">>)],
     [k \in {<<"a">>, <<"n">>} |-> IF k = <<"a">> THEN StringValue(<<"h", "i">>) ELSE IntValue(2)]}

InitWorkers ==
    /\ O = "{"
    /\ C = "}"
    /\ P = "DefaultParser"
    /\ t \in UnitTexts(MaxUnits)
    /\ pc = "new"
    /\ tpl = NoTemplate
    /\ ctx = EmptyContext
    /\ out = NoOutput
    /\ calls = NoCalls
    /\ ls = NoListing
    /\ toks = NoTokens
    /\ tw = NoWalk

WorkerCall == \E w \in Workers : Call(w, WorkerContexts)
WorkerStep == \E w \in Workers : Step(w)

NextWorkers == Parse \/ WorkerCall \/ WorkerStep

SpecWorkers == InitWorkers /\ [][NextWorkers]_vars

(***************************************************************************)
(* SpecList: the list command run with every configuration of one to       *)
(* MaxFormats format strings, well formed or not, over one or two entries. *)
(***************************************************************************)
MaxFormats == 2
ListFormats ==
    {Segment(<<"n">>), Segment(<<"a", ">">>), <<"x">>, <<"{", "n">>, <<"a", "}">>}
RECURSIVE FormatLists(_)
FormatLists(n) ==
    IF n = 0 THEN {<<>>}
    ELSE FormatLists(n - 1) \cup {Append(fs, f) : fs \in FormatLists(n - 1), f \in ListFormats}
EntryLists ==
    {<<[k \in {<<"n">>} |-> StringValue(<<"h", "i">>)]>>,
     <<[k \in {<<"n">>} |-> StringValue(<<"h", "i">>)],
       [k \in {<<"n">>, <<"a">>} |-> IF k = <<"n">> THEN StringValue(<<"a">>) ELSE IntValue(2)]>>}

InitList ==
    /\ O = "{"
    /\ C = "}"
    /\ P = "DefaultParser"
    /\ t = <<>>
    /\ pc = "new"
    /\ tpl = NoTemplate
    /\ ctx = EmptyContext
    /\ out = NoOutput
    /\ calls = NoCalls
    /\ ls \in {NewListing(formats, entries) : formats \in FormatLists(MaxFormats), entries \in EntryLists}
    /\ toks = NoTokens
    /\ tw = NoWalk

NextList == ListTemplates \/ ListEntry \/ ListTotal

SpecList == InitList /\ [][NextList]_vars

(***************************************************************************)
(* SpecTokens: Template::tokenize called on every text up to MaxTokLen     *)
(* over a letter, the underscore, the space, two digits, two symbols, a    *)
(* delimiter and a numeric character that is no ASCII digit, and on one    *)
(* digit run past i64::MAX.                                                *)
(***************************************************************************)
MaxTokLen == 4
TokenAlphabet == {"a", "_", " ", "0", "1", "-", ":", "}"} \cup OtherNumeric

InitTokens ==
    /\ O = "{"
    /\ C = "}"
    /\ P = "DefaultParser"
    /\ t \in Strings(TokenAlphabet, MaxTokLen) \cup {I64Overflow}
    /\ pc = "new"
    /\ tpl = NoTemplate
    /\ ctx = EmptyContext
    /\ out = NoOutput
    /\ calls = NoCalls
    /\ ls = NoListing
    /\ toks = NoTokens
    /\ tw = NoWalk

NextTokens == Tokenize

SpecTokens == InitTokens /\ [][NextTokens]_vars

(***************************************************************************)
(* ThreadedWalk iterated over a tree: every assignment of kinds to the     *)
(* nodes, max_depth up to MaxWalkDepth, skip_hidden on and off.  The       *)
(* caller keeps calling next(), up to MaxExtraNext more times after the    *)
(* first None.  The fair specification lets neither the threads of the     *)
(* pool nor the calling thread stop while they have a step to take.        *)
(***************************************************************************)
WalkTrees == {tree \in [WalkNodes -> EntryKinds] : tree[WalkRoot] \in RootKinds}

InitWalk ==
    /\ O = "{" /\ C = "}"
    /\ P = "DefaultParser"
    /\ t = <<>>
    /\ pc = "walk"
    /\ tpl = NoTemplate
    /\ ctx = EmptyContext
    /\ out = NoOutput
    /\ calls = NoCalls
    /\ ls = NoListing
    /\ toks = NoTokens
    /\ tw \in {NewWalk(tree, d, h) : tree \in WalkTrees, d \in 0..MaxWalkDepth, h \in BOOLEAN}

WalkWorker == WalkVisit \/ WalkEntry \/ WalkReturn
WalkConsumer == WalkNext \/ WalkRecv

NextWalk == WalkVisit \/ WalkEntry \/ WalkReturn \/ WalkNext \/ WalkRecv

SpecWalk == InitWalk /\ [][NextWalk]_vars

SpecWalkFair == InitWalk /\ [][NextWalk]_vars /\ WF_vars(WalkWorker) /\ WF_vars(WalkConsumer)

(***************************************************************************)
(* Delimiter structure of a text, stated without a depth counter: the text *)
(* read left to right as units, where a delimiter followed by itself is    *)
(* one escape unit.  Each unit records the position of its last character. *)
(***************************************************************************)
RECURSIVE UnitsFrom(_, _)
UnitsFrom(s, i) ==
    IF i > Len(s) THEN <<>>
    ELSE IF s[i] \in {O, C} /\ i < Len(s) /\ s[i + 1] = s[i]
        THEN <<[kind |-> "escape", ch |-> s[i], at |-> i + 1]>> \o UnitsFrom(s, i + 2)
    ELSE IF s[i] = O THEN <<[kind |-> "open", ch |-> O, at |-> i]>> \o UnitsFrom(s, i + 1)
    ELSE IF s[i] = C THEN <<[kind |-> "close", ch |-> C, at |-> i]>> \o UnitsFrom(s, i + 1)
    ELSE <<[kind |-> "text", ch |-> s[i], at |-> i]>> \o UnitsFrom(s, i + 1)

Units(s) == UnitsFrom(s, 1)

KindCount(u, k, kind) == Cardinality({j \in 1..k : u[j].kind = kind})
\* opens minus closes among the first k units
Balance(u, k) == KindCount(u, k, "open") - KindCount(u, k, "close")
\* the close units with no open left to match
UnmatchedCloses(u) == {k \in 1..Len(u) : u[k].kind = "close" /\ Balance(u, k) < 0}
FirstUnmatchedClose(u) == CHOOSE k \in UnmatchedCloses(u) : \A j \in UnmatchedCloses(u) : k <= j

ValidatorError(e, ch) == ParseErr(e, ch, <<>>, <<"validate_delimiters">>)

\* the texts that agree with s through position n and go on with up to two
\* more characters
Continuations(s, n) ==
    {SubSeq(s, 1, IF n < Len(s) THEN n ELSE Len(s)) \o more : more \in Strings({O, C, "a"}, 2)}

C2_MissingClosed ==
    (pc # "new" /\ O # C) =>
        LET u == Units(t)
            open == UnmatchedCloses(u) = {} /\ Balance(u, Len(u)) > 0
        IN  /\ open <=> tpl.err = "MissingClosedDelimiter"
            /\ open => tpl = ValidatorError("MissingClosedDelimiter", C)
            /\ t \in {<<"{", "a", "}", "{", "a">>, <<"{", "a", "{", "a", "}", "}">>} => open

C2_Witness ==
    /\ pc = "parsed"
    /\ t = <<"{", "a", "}", "{", "a">>
    /\ tpl = ValidatorError("MissingClosedDelimiter", "}")

(***************************************************************************)
(* C3: with a symmetric delimiter, parse fails with MissingDelimiter(O)    *)
(* exactly when the delimiter occurs an odd number of times in the text.   *)
(* The code counts the characters that are NOT the delimiter.              *)
(***************************************************************************)
C3_SymmetricOddCount ==
    (pc # "new" /\ O = C) =>
        (tpl = ValidatorError("MissingDelimiter", O) <=> CountChar(t, O) % 2 = 1)

DelimiterPositions(s) == {i \in 1..Len(s) : s[i] = O}
\* the k-th smallest element of a set of positions
NthPosition(S, k) == CHOOSE i \in S : Cardinality({j \in S : j <= i}) = k
NoneDoubled(s) == \A i \in 1..(Len(s) - 1) : ~(s[i] = O /\ s[i + 1] = O)
PairContent(s, k) ==
    SubSeq(s, NthPosition(DelimiterPositions(s), 2 * k - 1) + 1,
              NthPosition(DelimiterPositions(s), 2 * k) - 1)
DirectivesOf(parts) == SelectSeq(parts, LAMBDA p : p.kind = "Directive")

(***************************************************************************)
(* C4: with a symmetric delimiter, every text with an even number of       *)
(* delimiter occurrences is accepted; when no delimiter is doubled, the    *)
(* delimiters 2k-1 and 2k bound the k-th directive, whose content is the   *)
(* text between them.                                                      *)
(***************************************************************************)
C4_SymmetricEvenAccepted ==
    (pc # "new" /\ O = C /\ CountChar(t, O) % 2 = 0) =>
        /\ tpl.ok
        /\ NoneDoubled(t) =>
            LET ds == DirectivesOf(tpl.parts)
            IN  /\ 2 * Len(ds) = CountChar(t, O)
                /\ \A k \in 1..Len(ds) :
                    ds[k].d = P_parse(tokenize(PairContent(t, k)).tokens, PairContent(t, k))

EscapeCount(u, ch) == Cardinality({k \in 1..Len(u) : u[k].kind = "escape" /\ u[k].ch = ch})

(***************************************************************************)
(* C5: with distinct delimiters, every doubled delimiter of an accepted    *)
(* text is one literal delimiter character of the formatted output and     *)
(* neither opens nor closes a segment: the output holds as many O (C) as   *)
(* the text has doubled O (C), and there are as many directives as         *)
(* unescaped opens.  The Context values hold no delimiter.                 *)
(***************************************************************************)
C5_EscapesCollapse ==
    (pc = "formatted" /\ O # C /\ out.ok) =>
        LET u == Units(t)
        IN  /\ CountChar(out.text, O) = EscapeCount(u, O)
            /\ CountChar(out.text, C) = EscapeCount(u, C)
            /\ Len(DirectivesOf(tpl.parts)) = KindCount(u, Len(u), "open")

Unbalanced(s) ==
    IF O = C THEN CountChar(s, O) % 2 = 1
    ELSE LET u == Units(s) IN UnmatchedCloses(u) # {} \/ Balance(u, Len(u)) # 0

(***************************************************************************)
(* C6: the balance of the whole text is checked before any segment is      *)
(* tokenized or handed to the Parser, and an unbalanced text (distinct or  *)
(* symmetric delimiters) yields the validator's error and no Template.     *)
(***************************************************************************)
C6_ValidatedBeforeTokenizing ==
    pc # "new" =>
        /\ tpl.log[1] = "validate_delimiters"
        /\ Unbalanced(t) =>
            /\ ~tpl.ok
            /\ tpl.err \in {"MissingOpenDelimiter", "MissingClosedDelimiter", "MissingDelimiter"}
            /\ tpl.log = <<"validate_delimiters">>
            /\ tpl.parts = <<>>

(***************************************************************************)
(* The formatting claims are stated over the texts x{content}! of          *)
(* SpecFormat.  An operand is the text of one token: a run of letters,     *)
(* underscores and whitespace, a run of ASCII digits, or one symbol.       *)
(***************************************************************************)
IsWrapped(s) == Len(s) >= 4 /\ s = Wrap(SubSeq(s, 3, Len(s) - 2))
ContentOf(s) == SubSeq(s, 3, Len(s) - 2)
Wrapped(body) == <<"x">> \o body \o <<"!">>

IsLetterRun(x) == x # <<>> /\ \A k \in 1..Len(x) : x[k] \in Letters \cup Whitespace \cup {"_"}
IsDigitRun(x) == x # <<>> /\ \A k \in 1..Len(x) : x[k] \in Digits
IsSymbolChar(x) == Len(x) = 1 /\ x[1] \in {":", "-", "?", "+"}
IsOperand(x) == IsLetterRun(x) \/ IsDigitRun(x) \/ IsSymbolChar(x)
\* a minus sign and a run of digits
IsSignedNumber(x) == Len(x) >= 2 /\ x[1] = "-" /\ IsDigitRun(Tail(x))
\* the text of the operand's token: a number is written in decimal
OperandText(x) == IF IsDigitRun(x) THEN NatToString(DigitsValue(x)) ELSE x

\* the natural textual form of the Values the Contexts hold
Stringified(v) ==
    CASE v = StringValue(<<"h", "i">>) -> <<"h", "i">>
      [] v = IntValue(0) -> <<"0">>
      [] v = IntValue(2) -> <<"2">>
      [] v = IntValue(0 - 1) -> <<"-", "1">>
      [] v = BoolValue(TRUE) -> <<"t", "r", "u", "e">>

\* text is p written n times
IsRepetition(text, p, n) ==
    /\ Len(text) = n * Len(p)
    /\ \A i \in 1..Len(text) : text[i] = p[((i - 1) % Len(p)) + 1]

\* the positions k of x where x is A ":" B for an operand A and a B in the class IsB
Splits(x, IsB(_)) ==
    {k \in 2..(Len(x) - 1) :
        /\ x[k] = ":"
        /\ IsOperand(SubSeq(x, 1, k - 1))
        /\ IsB(SubSeq(x, k + 1, Len(x)))}
LeftOf(x, k) == OperandText(SubSeq(x, 1, k - 1))
RightOf(x, k) == OperandText(SubSeq(x, k + 1, Len(x)))

(***************************************************************************)
(* C7: a segment that is one run of letters formats to the stringified     *)
(* Context value of that name, between the surrounding literals, and       *)
(* format fails with NoValueFound(name) when the Context has no such key.  *)
(***************************************************************************)
C7_ReplaceLooksUp ==
    (pc = "formatted" /\ IsWrapped(t) /\ IsLetterRun(ContentOf(t))) =>
        LET name == ContentOf(t)
        IN  IF name \in DOMAIN ctx
            THEN out = OkText(Wrapped(Stringified(ctx[name])))
            ELSE out = ErrText("NoValueFound", name)

C7_Witness ==
    /\ pc = "formatted"
    /\ t = Wrap(<<"n">>)
    /\ ctx = [k \in {<<"n">>} |-> IntValue(0 - 1)]
    /\ out = OkText(<<"x", "-", "1", "!">>)

ExpectedPattern(a) == IF a \in DOMAIN ctx THEN Stringified(ctx[a]) ELSE a
ExpectedCount(x, k) ==
    IF RightOf(x, k) \in DOMAIN ctx THEN ctx[RightOf(x, k)].i
    ELSE DigitsValue(SubSeq(x, k + 1, Len(x)))

(***************************************************************************)
(* C8: a segment A:B of two operands executes as Repeat.  The pattern is   *)
(* the stringified Context value of text(A) when text(A) is a key and the  *)
(* literal text(A) otherwise; the count is the Context integer of text(B)  *)
(* or the number B writes; the output is the pattern written count times.  *)
(* Format succeeds when the count is a positive Context integer or a       *)
(* number written in the segment.                                          *)
(***************************************************************************)
C8_RepeatConcatenates ==
    (pc = "formatted" /\ IsWrapped(t)) =>
        \A k \in Splits(ContentOf(t), IsOperand) :
            LET x == ContentOf(t)
                b == RightOf(x, k)
                counted ==
                    IF b \in DOMAIN ctx THEN ctx[b].kind = "Int" /\ ctx[b].i > 0
                    ELSE IsDigitRun(SubSeq(x, k + 1, Len(x)))
            IN  /\ counted => out.ok
                /\ out.ok =>
                    /\ Len(out.text) >= 2
                    /\ out.text[1] = "x"
                    /\ out.text[Len(out.text)] = "!"
                    /\ IsRepetition(SubSeq(out.text, 2, Len(out.text) - 1),
                                    ExpectedPattern(LeftOf(x, k)), ExpectedCount(x, k))

\* {a:n} with a = "hi" and n = 2 formats to hihi
C8_Witness ==
    /\ pc = "formatted"
    /\ t = Wrap(<<"a", ":", "n">>)
    /\ ctx = (<<"a">> :> StringValue(<<"h", "i">>)) @@ (<<"n">> :> IntValue(2))
    /\ out = OkText(<<"x", "h", "i", "h", "i", "!">>)

(***************************************************************************)
(* C9: Repeat accepts every non-negative count: a Context value Int(n)     *)
(* with n >= 0 or a number written in the segment; a count of 0 yields the *)
(* empty text.  The code rejects a Context value Int(0).                   *)
(***************************************************************************)
C9_ZeroCountAccepted ==
    (pc = "formatted" /\ IsWrapped(t)) =>
        \A k \in Splits(ContentOf(t), IsOperand) :
            LET x == ContentOf(t)
                b == RightOf(x, k)
                nonNegative ==
                    IF b \in DOMAIN ctx THEN ctx[b].kind = "Int" /\ ctx[b].i >= 0
                    ELSE IsDigitRun(SubSeq(x, k + 1, Len(x)))
            IN  nonNegative =>
                    /\ out.ok
                    /\ ExpectedCount(x, k) = 0 => out = OkText(Wrapped(<<>>))

IsCountOperand(x) == IsOperand(x) \/ IsSignedNumber(x)

(***************************************************************************)
(* C10: formatting a Repeat segment fails with the invalid-count error     *)
(* whenever the count operand is not a non-negative integer: a Context     *)
(* value that is no integer or is negative, or a text absent from the      *)
(* Context that writes no non-negative integer, as the -1 of {a:-1}.       *)
(* The code tokenizes -1 as two tokens and outputs the segment's text.     *)
(***************************************************************************)
C10_InvalidCountFails ==
    (pc = "formatted" /\ IsWrapped(t)) =>
        \A k \in Splits(ContentOf(t), IsCountOperand) :
            LET x == ContentOf(t)
                b == RightOf(x, k)
                written == SubSeq(x, k + 1, Len(x))
                invalid ==
                    IF b \in DOMAIN ctx THEN ~(ctx[b].kind = "Int" /\ ctx[b].i >= 0)
                    ELSE IF IsSignedNumber(written) THEN DigitsValue(Tail(written)) > 0
                    ELSE ~IsDigitRun(written)
            IN  invalid => out = ErrText("ExecutionError", RepeatCountMessage)

\* a content of the shape cond?t:f, three runs of letters
IsConditional(x) ==
    \E i, j \in 1..Len(x) :
        /\ i < j
        /\ x[i] = "?"
        /\ x[j] = ":"
        /\ IsLetterRun(SubSeq(x, 1, i - 1))
        /\ IsLetterRun(SubSeq(x, i + 1, j - 1))
        /\ IsLetterRun(SubSeq(x, j + 1, Len(x)))
QuestionAt(x) == CHOOSE i \in 1..Len(x) : x[i] = "?"
ColonAt(x) == CHOOSE j \in 1..Len(x) : x[j] = ":"
CondOf(x) == SubSeq(x, 1, QuestionAt(x) - 1)
ThenOf(x) == SubSeq(x, QuestionAt(x) + 1, ColonAt(x) - 1)
ElseOf(x) == SubSeq(x, ColonAt(x) + 1, Len(x))
\* cond is in the Context with Bool(true) or with a value that is no boolean
Truthy(c, cond) == cond \in DOMAIN c /\ c[cond] # BoolValue(FALSE)

(***************************************************************************)
(* C11: formatting a segment cond?t:f never fails; it gives the text t as  *)
(* written when cond is in the Context with Bool(true) or with a value     *)
(* that is no boolean, and the text f as written when cond is Bool(false)  *)
(* or absent; t and f are not looked up, even when they are Context keys.  *)
(***************************************************************************)
C11_ConditionalPicksLiteral ==
    (pc = "formatted" /\ IsWrapped(t) /\ IsConditional(ContentOf(t))) =>
        LET x == ContentOf(t)
        IN  out = OkText(Wrapped(IF Truthy(ctx, CondOf(x)) THEN ThenOf(x) ELSE ElseOf(x)))

\* a?b:a with a an integer (no boolean) and the branch b a Context key
C11_Witness ==
    /\ pc = "formatted"
    /\ t = Wrap(<<"a", "?", "b", ":", "a">>)
    /\ ctx = [k \in {<<"a">>, <<"b">>} |->
                IF k = <<"a">> THEN IntValue(0) ELSE StringValue(<<"h", "i">>)]
    /\ out = OkText(<<"x", "b", "!">>)

\* the raw contents of the bracket segments of a text {r1}{r2}..., in order
RECURSIVE RawSegments(_)
RawSegments(s) ==
    IF s = <<>> THEN <<>>
    ELSE LET j == CHOOSE k \in 1..Len(s) : s[k] = "}" /\ \A m \in 1..(k - 1) : s[m] # "}"
         IN  <<SubSeq(s, 2, j - 1)>> \o RawSegments(SubSeq(s, j + 1, Len(s)))
Markers == {"<", ">", "^"}
IsMarked(r) == r # <<>> /\ r[Len(r)] \in Markers
Stripped(r) == IF IsMarked(r) THEN SubSeq(r, 1, Len(r) - 1) ELSE r
AlignmentNamed(ch) == IF ch = "<" THEN "Left" ELSE IF ch = ">" THEN "Right" ELSE "Center"
MarkedSegments(rs) == {k \in 1..Len(rs) : IsMarked(rs[k])}
LastMarked(rs) == CHOOSE k \in MarkedSegments(rs) : \A m \in MarkedSegments(rs) : m <= k
ExpectedAlignment(rs) ==
    IF MarkedSegments(rs) = {} THEN "Left"
    ELSE LET r == rs[LastMarked(rs)] IN AlignmentNamed(r[Len(r)])

(***************************************************************************)
(* C12: of each segment's raw content only the last character is looked   *)
(* at for an alignment marker: a final <, > or ^ is removed, that one      *)
(* character only, from the content the tokenizer and the parser get, and  *)
(* sets the alignment to Left, Right or Center; markers elsewhere stay in  *)
(* the content; with no marker the alignment is Left; over several marked  *)
(* segments the last one wins.                                             *)
(***************************************************************************)
C12_LastCharAlignment ==
    (pc # "new" /\ tpl.ok) =>
        LET rs == RawSegments(t)
            ds == DirectivesOf(tpl.parts)
        IN  /\ Len(ds) = Len(rs)
            /\ \A k \in 1..Len(rs) :
                LET content == Stripped(rs[k])
                IN  /\ ds[k].d = P_parse(tokenize(content).tokens, content)
                    /\ P = "MockParser" => ds[k].d = MockDirective(content)
            /\ tpl.alignment = ExpectedAlignment(rs)

\* {a<>^}{a>}: the first content is a<>, the second a, the alignment Right
C12_Witness ==
    /\ pc = "parsed"
    /\ P = "MockParser"
    /\ t = Segment(<<"a", "<", ">", "^">>) \o Segment(<<"a", ">">>)
    /\ tpl.ok
    /\ tpl.alignment = "Right"
    /\ tpl.parts = <<DirectivePart(MockDirective(<<"a", "<", ">">>)),
                     DirectivePart(MockDirective(<<"a">>))>>

(***************************************************************************)
(* C13: with the default parser every text that passes delimiter           *)
(* validation yields a Template: the default parser returns a directive    *)
(* for every token sequence, so parse never fails with DirectiveParsing.   *)
(***************************************************************************)
C13_ValidatedYieldsTemplate ==
    (pc # "new" /\ P = "DefaultParser" /\ validate_delimiters(t).ok) =>
        /\ tpl.err # "DirectiveParsing"
        /\ tpl.ok

\* the three positional patterns of the default grammar
IsSingleSlice(tokens) == Len(tokens) = 1 /\ tokens[1].kind = "Slice"
IsColonTriple(tokens) ==
    Len(tokens) = 3 /\ tokens[2].kind = "Symbol" /\ tokens[2].ch = ":"
IsConditionalQuintuple(tokens) ==
    /\ Len(tokens) = 5
    /\ tokens[1].kind = "Slice" /\ tokens[3].kind = "Slice" /\ tokens[5].kind = "Slice"
    /\ tokens[2].kind = "Symbol" /\ tokens[2].ch = "?"
    /\ tokens[4].kind = "Symbol" /\ tokens[4].ch = ":"
MatchesNoPattern(tokens) ==
    ~IsSingleSlice(tokens) /\ ~IsColonTriple(tokens) /\ ~IsConditionalQuintuple(tokens)

(***************************************************************************)
(* C14: under the default grammar a segment whose tokens match none of the *)
(* three patterns (one Slice; X : Y; Slice ? Slice : Slice) becomes a      *)
(* NoDirective holding the segment's content, and formatting it gives that *)
(* content unchanged, for every Context, without failing.                  *)
(***************************************************************************)
C14_UnmatchedIsNoOp ==
    (pc # "new" /\ IsWrapped(t) /\ MatchesNoPattern(tokenize(ContentOf(t)).tokens)) =>
        /\ tpl.ok
        /\ DirectivesOf(tpl.parts) = <<DirectivePart(NoDirective(ContentOf(t)))>>
        /\ pc = "formatted" => out = OkText(Wrapped(ContentOf(t)))

\* a:n: is four tokens; a and n are Context keys and the text comes out as written
C14_Witness ==
    /\ pc = "formatted"
    /\ t = Wrap(<<"a", ":", "n", ":">>)
    /\ ctx = [k \in {<<"a">>, <<"n">>} |->
                IF k = <<"a">> THEN StringValue(<<"h", "i">>) ELSE IntValue(2)]
    /\ out = OkText(<<"x", "a", ":", "n", ":", "!">>)

\* the segments whose content, after alignment stripping, the FailingParser rejects
Rejected(rs) == {k \in 1..Len(rs) : Contains(Stripped(rs[k]), Fail)}
FirstRejected(rs) == CHOOSE k \in Rejected(rs) : \A m \in Rejected(rs) : k <= m
\* the calls parse makes when it stops at segment k
RECURSIVE CallsUpTo(_)
CallsUpTo(k) ==
    IF k = 0 THEN <<"validate_delimiters">> ELSE CallsUpTo(k - 1) \o <<"tokenize", "P::parse">>

(***************************************************************************)
(* C15: when the Parser strategy returns None for a segment, parse fails   *)
(* as a whole with DirectiveParsing(content), content being that segment's *)
(* text after alignment stripping; no Template is returned, even when      *)
(* earlier segments were parsed, and later segments are not processed.     *)
(***************************************************************************)
C15_NoneFailsWholeParse ==
    (pc # "new" /\ P = "FailingParser" /\ Rejected(RawSegments(t)) # {}) =>
        LET rs == RawSegments(t)
            k == FirstRejected(rs)
        IN  /\ ~tpl.ok
            /\ tpl.err = "DirectiveParsing"
            /\ tpl.arg = Stripped(rs[k])
            /\ tpl.parts = <<>>
            /\ tpl.log = CallsUpTo(k)

\* {fail<}{a}: the content reported is fail and the second segment is never tokenized
C15_Witness ==
    /\ pc = "parsed"
    /\ P = "FailingParser"
    /\ t = Segment(Fail \o <<"<">>) \o Segment(<<"a">>)
    /\ tpl = ParseErr("DirectiveParsing", "", Fail, <<"validate_delimiters", "tokenize", "P::parse">>)

\* what one part contributes on its own
PartResult(part, c) == IF part.kind = "Literal" THEN OkText(part.s) ELSE execute(part.d, c)
FailingParts(parts, c) == {k \in 1..Len(parts) : ~PartResult(parts[k], c).ok}
FirstFailing(parts, c) ==
    CHOOSE k \in FailingParts(parts, c) : \A m \in FailingParts(parts, c) : k <= m
RECURSIVE Concatenation(_, _, _)
Concatenation(parts, c, n) ==
    IF n = 0 THEN <<>>
    ELSE Concatenation(parts, c, n - 1) \o PartResult(parts[n], c).text
\* the positions of the directives among the first n parts, in order
RECURSIVE DirectivePositions(_, _)
DirectivePositions(parts, n) ==
    IF n = 0 THEN <<>>
    ELSE IF parts[n].kind = "Directive" THEN Append(DirectivePositions(parts, n - 1), n)
    ELSE DirectivePositions(parts, n - 1)
Done(w) == calls[w].state = "done"

(***************************************************************************)
(* C16: format goes through the parts in stored order and returns the      *)
(* concatenation of every literal and every directive result in that       *)
(* order, or, when a directive fails, the error of the first failing       *)
(* directive and no partial output; no directive after it is executed.     *)
(***************************************************************************)
C16_FormatFailsFast ==
    \A w \in Workers :
        Done(w) =>
            LET parts == tpl.parts
                c == calls[w].ctx
            IN  IF FailingParts(parts, c) = {} THEN
                    /\ calls[w].ret = OkText(Concatenation(parts, c, Len(parts)))
                    /\ calls[w].executed = DirectivePositions(parts, Len(parts))
                ELSE
                    /\ calls[w].ret = PartResult(parts[FirstFailing(parts, c)], c)
                    /\ calls[w].ret.text = <<>>
                    /\ calls[w].executed = DirectivePositions(parts, FirstFailing(parts, c))

\* {a}{a:n} with the empty Context: both directives would fail, the error is the first one's
C16_Witness ==
    /\ t = Segment(<<"a">>) \o Segment(<<"a", ":", "n">>)
    /\ Done("w1")
    /\ calls["w1"].ctx = EmptyContext
    /\ calls["w1"].ret = ErrText("NoValueFound", <<"a">>)
    /\ calls["w1"].executed = <<1>>

(***************************************************************************)
(* C17: formatting the same Template again with the same Context gives the *)
(* same result, text or error, whatever other format calls, successful or  *)
(* failing, were made meanwhile: any two finished calls with equal         *)
(* Contexts have equal results.                                            *)
(***************************************************************************)
C17_SameContextSameResult ==
    \A v, w \in Workers :
        (Done(v) /\ Done(w) /\ calls[v].ctx = calls[w].ctx) => calls[v].ret = calls[w].ret

\* x{a}: two calls with a bound to hi gave xhi, a call with the empty Context failed
C17_Witness ==
    /\ t = <<"x">> \o Segment(<<"a">>)
    /\ Done("w1") /\ Done("w2") /\ Done("w3")
    /\ calls["w1"].ctx = [k \in {<<"a">>} |-> StringValue(<<"h", "i">>)]
    /\ calls["w3"].ctx = calls["w1"].ctx
    /\ calls["w2"].ctx = EmptyContext
    /\ calls["w1"].ret = OkText(<<"x", "h", "i">>)
    /\ calls["w3"].ret = calls["w1"].ret
    /\ calls["w2"].ret = ErrText("NoValueFound", <<"a">>)

(***************************************************************************)
(* C18: a step of a format call, whether the call succeeds or fails,       *)
(* leaves the Template's parts and alignment and the call's Context as     *)
(* they were; alignment() is the same before and after the calls.          *)
(***************************************************************************)
C18_FormatLeavesInputs ==
    [][(pc = "parsed" /\ tpl.ok) =>
        /\ tpl'.parts = tpl.parts
        /\ tpl'.alignment = tpl.alignment
        /\ \A w \in Workers :
              calls[w].state = "running" => calls'[w].ctx = calls[w].ctx]_vars

\* {n>}{a}: one call succeeded, one failed; the Template is the one parse returned
C18_Witness ==
    /\ t = Segment(<<"n", ">">>) \o Segment(<<"a">>)
    /\ Done("w1") /\ calls["w1"].ret = OkText(<<"2", "h", "i">>)
    /\ Done("w2") /\ calls["w2"].ret = ErrText("NoValueFound", <<"n">>)
    /\ calls["w2"].ctx = [k \in {<<"a">>} |-> StringValue(<<"h", "i">>)]
    /\ tpl = parse(t)
    /\ tpl.alignment = "Right"

(***************************************************************************)
(* C19: in every interleaving of the format calls the workers make on the  *)
(* one Template, each with its own Context, every call returns what it     *)
(* would return when run alone.                                            *)
(***************************************************************************)
C19_CallsDoNotInterfere ==
    \A w \in Workers : Done(w) => calls[w].ret = format(tpl, calls[w].ctx)

\* x{a}: w1 and w3 are in the middle of their calls, with other Contexts, when w2 has finished
C19_Witness ==
    /\ t = <<"x">> \o Segment(<<"a">>)
    /\ calls["w1"].state = "running"
    /\ calls["w1"].k = 2
    /\ calls["w1"].ctx = EmptyContext
    /\ calls["w3"].state = "running"
    /\ calls["w3"].k = 1
    /\ Done("w2")
    /\ calls["w2"].ctx = [k \in {<<"a">>} |-> StringValue(<<"h", "i">>)]
    /\ calls["w2"].ret = OkText(<<"x", "h", "i">>)

\* the configured format strings that parse, in order
Parses(f) == parse(f).ok
WellFormed(formats) == SelectSeq(formats, Parses)

(***************************************************************************)
(* C20: when a configured format string fails to parse, the list command   *)
(* reports the error and skips that format string only: the other format   *)
(* strings are still parsed and used and the listing is not aborted.       *)
(***************************************************************************)
C20_ParseErrorSkipsOneFormat ==
    (ls.pc = "done" /\ \E k \in 1..Len(ls.format) : ~Parses(ls.format[k])) =>
        /\ ls.ret = "Ok"
        /\ ls.parsed = Len(ls.format)
        /\ ls.templates = [k \in 1..Len(WellFormed(ls.format)) |-> parse(WellFormed(ls.format)[k])]
        /\ ls.entry = Len(ls.entries)
        /\ \E k \in 1..Len(ls.handle) : ls.handle[k].line = "total"

\* what the templates give for one entry, each formatted on its own
RECURSIVE ExpectedCells(_, _, _)
ExpectedCells(templates, n, c) ==
    IF n = 0 THEN <<>>
    ELSE LET r == format(templates[n], c)
         IN  IF r.ok THEN Append(ExpectedCells(templates, n - 1, c), Cell(r.text, templates[n].alignment))
             ELSE ExpectedCells(templates, n - 1, c)
RECURSIVE ExpectedErrors(_, _, _)
ExpectedErrors(templates, n, c) ==
    IF n = 0 THEN <<>>
    ELSE LET r == format(templates[n], c)
         IN  IF r.ok THEN ExpectedErrors(templates, n - 1, c)
             ELSE Append(ExpectedErrors(templates, n - 1, c), ErrorLine(r))
RECURSIVE ExpectedRows(_, _, _)
ExpectedRows(templates, entries, n) ==
    IF n = 0 THEN <<>>
    ELSE LET row == ExpectedCells(templates, Len(templates), entries[n])
         IN  IF row = <<>> THEN ExpectedRows(templates, entries, n - 1)
             ELSE Append(ExpectedRows(templates, entries, n - 1), row)
RECURSIVE ExpectedReports(_, _, _)
ExpectedReports(templates, entries, n) ==
    IF n = 0 THEN <<>>
    ELSE ExpectedReports(templates, entries, n - 1)
            \o ExpectedErrors(templates, Len(templates), entries[n])

C22_MinusDigitsIsNegativeInt ==
    (pc = "tokenized" /\ t # <<>> /\ t[1] = "-") =>
        IF IsSignedNumber(t)
        THEN toks.tokens = <<IntToken(0 - DigitsValue(Tail(t)))>>
        ELSE (Len(t) = 1 \/ t[2] \notin Digits) => toks.tokens[1] = SymbolToken("-")

(***************************************************************************)
(* C23: the tokenizer never panics: a digit run that does not fit the      *)
(* signed 64-bit range is handled, for every content.                      *)
(***************************************************************************)
C23_TokenizerNeverPanics == pc = "tokenized" => ~toks.panic

\* a character of none of the tokenizer's classes
IsUnclassified(ch) ==
    /\ ch \notin {O, C}
    /\ ~(is_alphabetic(ch) \/ ch = "_" \/ is_whitespace(ch))
    /\ ~is_ascii_digit(ch)
    /\ ~(~is_alphanumeric(ch) /\ ~is_whitespace(ch))
CountToken(tokens, tok) == Cardinality({k \in 1..Len(tokens) : tokens[k] = tok})

(***************************************************************************)
(* C24: a character that fits none of the tokenizer's classes is emitted   *)
(* as Unknown(c), once for each occurrence, and is never dropped.          *)
(***************************************************************************)
C24_UnclassifiedIsUnknown ==
    (pc = "tokenized" /\ ~toks.panic) =>
        \A ch \in {t[k] : k \in 1..Len(t)} :
            IsUnclassified(ch) => CountToken(toks.tokens, UnknownToken(ch)) = CountChar(t, ch)

\* the class of a character: text, digit, or a token of its own
IsTextChar(ch) == is_alphabetic(ch) \/ ch = "_" \/ is_whitespace(ch)
SameRun(a, b) ==
    (IsTextChar(a) /\ IsTextChar(b)) \/ (is_ascii_digit(a) /\ is_ascii_digit(b))
\* the end of the maximal run that starts at position i
RECURSIVE RunEnd(_, _)
RunEnd(s, i) == IF i < Len(s) /\ SameRun(s[i], s[i + 1]) THEN RunEnd(s, i + 1) ELSE i
RunToken(run) ==
    IF IsTextChar(run[1]) THEN SliceToken(run)
    ELSE IF is_ascii_digit(run[1]) THEN IntToken(DigitsValue(run))
    ELSE IF run[1] \in {O, C} THEN DelimiterToken(run[1])
    ELSE SymbolToken(run[1])
\* one token for each maximal run, left to right; a character of no class
\* ends the run before it and gives no token here
RECURSIVE MaximalRuns(_, _)
MaximalRuns(s, i) ==
    IF i > Len(s) THEN <<>>
    ELSE IF IsUnclassified(s[i]) THEN MaximalRuns(s, i + 1)
    ELSE <<RunToken(SubSeq(s, i, RunEnd(s, i)))>> \o MaximalRuns(s, RunEnd(s, i) + 1)
IsKnown(tok) == tok.kind # "Unknown"

(***************************************************************************)
(* C25: the tokenizer splits its input into maximal runs, left to right:   *)
(* one text token for each maximal run of alphabetic, underscore and       *)
(* whitespace characters, one Int with the decimal value for each maximal  *)
(* run of ASCII digits, one token for every other non-alphanumeric,        *)
(* non-whitespace character; buffers are flushed when a run of the other   *)
(* kind starts and at the end; the empty input gives no token.             *)
(***************************************************************************)
C25_MaximalRuns ==
    (pc = "tokenized" /\ ~toks.panic) =>
        /\ SelectSeq(toks.tokens, IsKnown) = MaximalRuns(t, 1)
        /\ toks.literal = <<>> /\ toks.number = <<>>
        /\ t = <<>> => toks.tokens = <<>>

(***************************************************************************)
(* C26: a segment whose content does not end in an alignment marker leaves *)
(* the alignment chosen by the segments before it unchanged: the alignment *)
(* of the Template is that of the last segment carrying a trailing marker, *)
(* which need not be the segment parsed last ({name>}{size} is Right).     *)
(***************************************************************************)
C26_UnmarkedKeepsAlignment ==
    (pc # "new" /\ tpl.ok) =>
        LET rs == RawSegments(t)
        IN  (rs # <<>> /\ ~IsMarked(rs[Len(rs)])) =>
                tpl.alignment = ExpectedAlignment(SubSeq(rs, 1, Len(rs) - 1))

\* {a>}{a}: the second segment has no marker and the alignment stays Right
C26_Witness ==
    /\ pc = "parsed"
    /\ P = "DefaultParser"
    /\ t = Segment(<<"a", ">">>) \o Segment(<<"a">>)
    /\ tpl.ok
    /\ Len(tpl.parts) = 2
    /\ tpl.alignment = "Right"

\* the texts of a sequence as a set of characters
CharsOf(s) == {s[k] : k \in 1..Len(s)}

(***************************************************************************)
(* C27: with distinct delimiters, for every input the validator accepts    *)
(* the inner bracket scan of the assembler always ends on a C and never on *)
(* the end of the input, and the content of no Directive part contains C.  *)
(* (Under DefaultParser over the structural alphabet the text a of a       *)
(* directive is the content its segment handed to the tokenizer.)          *)
(***************************************************************************)
C27_ScanEndsOnClose ==
    (pc # "new" /\ O # C /\ validate_delimiters(t).ok) =>
        /\ tpl.eof = 0
        /\ \A k \in 1..Len(tpl.parts) :
               tpl.parts[k].kind = "Directive" => C \notin CharsOf(tpl.parts[k].d.a)

\* {a{{a}: the segment swallows the doubled O and ends on the only C
C27_Witness ==
    /\ pc = "parsed"
    /\ O = "{" /\ C = "}"
    /\ t = <<"{", "a", "{", "{", "a", "}">>
    /\ validate_delimiters(t).ok
    /\ tpl.ok
    /\ tpl.eof = 0
    /\ Len(tpl.parts) = 1
    /\ tpl.parts[1].d.a = <<"a", "{", "{", "a">>

(***************************************************************************)
(* C28: with distinct delimiters, for every input the validator accepts    *)
(* the assembler never takes a single unescaped C outside a bracket scan   *)
(* as literal text, and the number of Directive parts is the number of     *)
(* unescaped O the validator counted.                                      *)
(***************************************************************************)
C28_ValidatorAssemblerAgree ==
    (pc # "new" /\ O # C /\ validate_delimiters(t).ok) =>
        /\ tpl.stray = 0
        /\ Len(DirectivesOf(tpl.parts)) = KindCount(Units(t), Len(Units(t)), "open")

\* a literal text as it is written in a template: every delimiter doubled
RECURSIVE Escaped(_)
Escaped(s) ==
    IF s = <<>> THEN <<>>
    ELSE (IF s[1] \in {O, C} THEN <<s[1], s[1]>> ELSE <<s[1]>>) \o Escaped(Tail(s))

\* the parts written back as a template text, in the order of the parts
RECURSIVE Rendered(_)
Rendered(parts) ==
    IF parts = <<>> THEN <<>>
    ELSE (IF parts[1].kind = "Literal" THEN Escaped(parts[1].s)
          ELSE <<O>> \o parts[1].d.a \o <<C>>) \o Rendered(Tail(parts))

(***************************************************************************)
(* C29: in every Template returned by parse no Literal part is empty and   *)
(* no two Literal parts are adjacent; the empty input yields zero parts    *)
(* and a non-empty input with no unescaped O yields exactly one Literal;   *)
(* the parts are in source order: when every segment ended on a C and no   *)
(* single C was taken as text, writing the parts back one after the other  *)
(* (literals with their delimiters doubled again) gives the input.         *)
(***************************************************************************)
C29_PartsAreOrderedAndMerged ==
    (pc # "new" /\ tpl.ok) =>
        /\ \A k \in 1..Len(tpl.parts) :
               tpl.parts[k].kind = "Literal" => tpl.parts[k].s # <<>>
        /\ \A k \in 1..(Len(tpl.parts) - 1) :
               ~(tpl.parts[k].kind = "Literal" /\ tpl.parts[k + 1].kind = "Literal")
        /\ t = <<>> => tpl.parts = <<>>
        /\ (t # <<>> /\ KindCount(Units(t), Len(Units(t)), "open") = 0) =>
               (Len(tpl.parts) = 1 /\ tpl.parts[1].kind = "Literal")
        /\ (tpl.eof = 0 /\ tpl.stray = 0) => Rendered(tpl.parts) = t

\* a{{{a}: the letter and the collapsed escape form one Literal before the segment
C29_Witness ==
    /\ pc = "parsed"
    /\ O = "{" /\ C = "}"
    /\ t = <<"a", "{", "{", "{", "a", "}">>
    /\ tpl.ok
    /\ tpl.parts = <<LiteralPart(<<"a", "{">>), DirectivePart(ReplaceDirective(<<"a">>))>>

\* the node n is in a list of messages
InMessages(n, msgs) == \E k \in 1..Len(msgs) : msgs[k][1] = n

(***************************************************************************)
(* C30: iterating a ThreadedWalk over a finite tree terminates under any   *)
(* interleaving of the directory visits: start() spawns the walk at most   *)
(* once however often next() is called; next() returns None only after the *)
(* Sender was dropped and every message sent was received; every call of   *)
(* next() returns; every path sent is eventually received; and next()      *)
(* eventually returns None.                                                *)
(***************************************************************************)
C30_WalkTerminates ==
    /\ [](tw.spawned <= 1)
    /\ [](tw.nones > 0 =>
            tw.tx = "dropped" /\ tw.chan = <<>> /\ tw.received = tw.sent)
    /\ (tw.pc = "recv") ~> (tw.pc = "idle")
    /\ \A n \in WalkNodes : InMessages(n, tw.sent) ~> InMessages(n, tw.received)
    /\ <>(tw.nones > 0)

\* r, a and b are directories and c a file: four paths were received, next()
\* returned None and returned it again on a later call, after one spawn
C30_Witness ==
    /\ tw.pc = "idle"
    /\ tw.tree = [n \in WalkNodes |-> IF n = "c" THEN "file" ELSE "dir"]
    /\ tw.max_depth = 3
    /\ tw.spawned = 1
    /\ tw.tx = "dropped"
    /\ Len(tw.received) = 4
    /\ tw.received[2][1] = "b"
    /\ tw.nones = 2

====
